---------------------------- MODULE Spec2Model ----------------------------
(***************************************************************************)
(* Model of the `gh models run` session (cmd/run/run.go): the parameter    *)
(* set, the conversation store and the read/dispatch/stream loop of RunE.  *)
(* Go strings are TLA+ strings; a Go pointer is Nil (<<>>) or <<value>>.   *)
(***************************************************************************)
EXTENDS Integers, Sequences, FiniteSets, TLC

(* ------------------------------ bounds --------------------------------- *)

\* Completion requests one session may issue before the model stops offering
\* further non-command input.
MaxExchanges == 2

\* Chunks one stream may deliver before it must end (EOF or error).
MaxChunks == 2

\* Operations applied to the stand-alone Conversation of ConvSpec.
MaxConvOps == 4

\* Calls of handleCompletionChoice in ChoiceSpec.
MaxChoiceCalls == 3

\* Calls of GetChatCompletionStream in ClientSpec.
MaxClientCalls == 2

\* Calls of handleSystemPrompt in PromptSpec.
MaxPromptCalls == 2

\* Calls applied to the stand-alone ModelParameters of ParamSpec.
MaxParamCalls == 3

(* ------------------------------ pointers ------------------------------- *)

Nil == <<>>

Ptr(v) == <<v>>

Deref(p) == p[1]

(* --------------------------- package strings --------------------------- *)

Char(s, i) == SubSeq(s, i, i)

\* The white space of unicode.IsSpace that the model's inputs can contain.
IsSpace(c) == c \in {" ", "\n", "\t", "\r"}

HasPrefix(s, prefix) ==
    Len(s) >= Len(prefix) /\ SubSeq(s, 1, Len(prefix)) = prefix

TrimPrefix(s, prefix) ==
    IF HasPrefix(s, prefix) THEN SubSeq(s, Len(prefix) + 1, Len(s)) ELSE s

RECURSIVE TrimLeftSpace(_)
TrimLeftSpace(s) ==
    IF Len(s) > 0 /\ IsSpace(Char(s, 1))
    THEN TrimLeftSpace(SubSeq(s, 2, Len(s)))
    ELSE s

RECURSIVE TrimRightSpace(_)
TrimRightSpace(s) ==
    IF Len(s) > 0 /\ IsSpace(Char(s, Len(s)))
    THEN TrimRightSpace(SubSeq(s, 1, Len(s) - 1))
    ELSE s

TrimSpace(s) == TrimRightSpace(TrimLeftSpace(s))

\* strings.Trim(s, cutset): every leading and trailing character of the
\* cutset is removed.
RECURSIVE TrimLeftSet(_, _)
TrimLeftSet(s, cutset) ==
    IF Len(s) > 0 /\ Char(s, 1) \in cutset
    THEN TrimLeftSet(SubSeq(s, 2, Len(s)), cutset)
    ELSE s

RECURSIVE TrimRightSet(_, _)
TrimRightSet(s, cutset) ==
    IF Len(s) > 0 /\ Char(s, Len(s)) \in cutset
    THEN TrimRightSet(SubSeq(s, 1, Len(s) - 1), cutset)
    ELSE s

Trim(s, cutset) == TrimRightSet(TrimLeftSet(s, cutset), cutset)

\* strings.Split(s, sep) for a one-character separator: the pieces between
\* the separators, empty pieces included.
RECURSIVE SplitFrom(_, _, _)
SplitFrom(s, sep, cur) ==
    IF Len(s) = 0 THEN <<cur>>
    ELSE IF Char(s, 1) = sep
         THEN <<cur>> \o SplitFrom(SubSeq(s, 2, Len(s)), sep, "")
         ELSE SplitFrom(SubSeq(s, 2, Len(s)), sep, cur \o Char(s, 1))

Split(s, sep) == SplitFrom(s, sep, "")

RECURSIVE Join(_, _)
Join(elems, sep) ==
    IF Len(elems) = 0 THEN ""
    ELSE IF Len(elems) = 1 THEN elems[1]
         ELSE elems[1] \o sep \o Join(Tail(elems), sep)

(* --------------------------- package strconv --------------------------- *)

Digits == {"0", "1", "2", "3", "4", "5", "6", "7", "8", "9"}

DigitVal(c) ==
    CASE c = "0" -> 0 [] c = "1" -> 1 [] c = "2" -> 2 [] c = "3" -> 3
      [] c = "4" -> 4 [] c = "5" -> 5 [] c = "6" -> 6 [] c = "7" -> 7
      [] c = "8" -> 8 [] c = "9" -> 9

AllDigits(s) == \A i \in 1..Len(s) : Char(s, i) \in Digits

RECURSIVE DecVal(_)
DecVal(s) ==
    IF Len(s) = 0 THEN 0
    ELSE 10 * DecVal(SubSeq(s, 1, Len(s) - 1)) + DigitVal(Char(s, Len(s)))

Unsigned(s) ==
    IF Len(s) > 0 /\ Char(s, 1) \in {"+", "-"} THEN SubSeq(s, 2, Len(s)) ELSE s

Sign(s) == IF Len(s) > 0 /\ Char(s, 1) = "-" THEN -1 ELSE 1

\* strconv.Atoi: an optional sign and at least one decimal digit.
Atoi(s) ==
    LET body == Unsigned(s) IN
    IF Len(body) > 0 /\ AllDigits(body)
    THEN [err |-> "nil", val |-> Sign(s) * DecVal(body)]
    ELSE [err |-> "strconv.Atoi: parsing: invalid syntax", val |-> 0]

\* Decimal places kept of a float64: those fmt's %f prints.
FracDigits == 6

RECURSIVE Pow10(_)
Pow10(n) == IF n = 0 THEN 1 ELSE 10 * Pow10(n - 1)

DotAt(s) ==
    IF \E i \in 1..Len(s) : Char(s, i) = "."
    THEN CHOOSE i \in 1..Len(s) :
            Char(s, i) = "." /\ \A j \in 1..(i - 1) : Char(s, j) # "."
    ELSE 0

\* The fraction digits as a count of 10^-FracDigits units (digits beyond
\* the kept places are dropped).
Micro(frac) ==
    IF Len(frac) >= FracDigits
    THEN DecVal(SubSeq(frac, 1, FracDigits))
    ELSE DecVal(frac) * Pow10(FracDigits - Len(frac))

\* strconv.ParseFloat(s, 64) on plain decimal text (optional sign, digits,
\* optional point and digits, at least one digit); the value is held in
\* units of 10^-FracDigits.  Exponents, hexadecimal mantissas, underscores,
\* "inf" and "nan" are outside the model's input alphabet.
ParseFloat(s) ==
    LET body == Unsigned(s)
        dot  == DotAt(body)
        int  == IF dot = 0 THEN body ELSE SubSeq(body, 1, dot - 1)
        frac == IF dot = 0 THEN "" ELSE SubSeq(body, dot + 1, Len(body))
    IN  IF /\ Len(int) + Len(frac) > 0
           /\ AllDigits(int)
           /\ AllDigits(frac)
        THEN [err |-> "nil",
              val |-> Sign(s) * (DecVal(int) * Pow10(FracDigits) + Micro(frac))]
        ELSE [err |-> "strconv.ParseFloat: parsing: invalid syntax", val |-> 0]

RECURSIVE UItoa(_)
UItoa(n) ==
    LET d == CHOOSE c \in Digits : DigitVal(c) = n % 10 IN
    IF n < 10 THEN d ELSE UItoa(n \div 10) \o d

\* strconv.Itoa
Itoa(n) == IF n < 0 THEN "-" \o UItoa(-n) ELSE UItoa(n)

RECURSIVE ZeroPad(_, _)
ZeroPad(s, width) == IF Len(s) >= width THEN s ELSE ZeroPad("0" \o s, width)

\* fmt.Sprintf("%f", f): the integer part, a point and FracDigits decimals.
FormatF(f) ==
    LET a == IF f < 0 THEN -f ELSE f IN
    (IF f < 0 THEN "-" ELSE "")
        \o UItoa(a \div Pow10(FracDigits)) \o "."
        \o ZeroPad(UItoa(a % Pow10(FracDigits)), FracDigits)

(* --------------------------- ModelParameters --------------------------- *)

\* ModelParameters{}: the three pointers are nil.
NewModelParameters == [maxTokens |-> Nil, temperature |-> Nil, topP |-> Nil]

\* FormatParameter that shows an unset parameter as the zero value.
FormatParameter_ZeroDefault(mp, name) ==
    CASE name = "max-tokens" ->
            IF mp.maxTokens # Nil THEN Itoa(Deref(mp.maxTokens)) ELSE "0"
      [] name = "temperature" ->
            IF mp.temperature # Nil THEN FormatF(Deref(mp.temperature))
            ELSE "0.000000"
      [] name = "top-p" ->
            IF mp.topP # Nil THEN FormatF(Deref(mp.topP)) ELSE "0.000000"
      [] OTHER -> "<not set>"

FormatParameter(mp, name) ==
    CASE name = "max-tokens" /\ mp.maxTokens # Nil -> Itoa(Deref(mp.maxTokens))
      [] name = "temperature" /\ mp.temperature # Nil ->
            FormatF(Deref(mp.temperature))
      [] name = "top-p" /\ mp.topP # Nil -> FormatF(Deref(mp.topP))
      [] OTHER -> "<not set>"

\* The flags are the strings of --max-tokens, --temperature and --top-p
\* ("" when the flag is absent).  The result is the error and the receiver
\* as the call leaves it.
\* PopulateFromFlags that reads --top-p as an integer.
PopulateFromFlags_TopPAsInt(mp, flags) ==
    LET mt  == Atoi(flags.maxTokens)
        mp1 == IF flags.maxTokens # ""
               THEN [mp EXCEPT !.maxTokens = Ptr(mt.val)] ELSE mp
        te  == ParseFloat(flags.temperature)
        mp2 == IF flags.temperature # ""
               THEN [mp1 EXCEPT !.temperature = Ptr(te.val)] ELSE mp1
        tp  == Atoi(flags.topP)
        mp3 == IF flags.topP # ""
               THEN [mp2 EXCEPT !.topP = Ptr(tp.val)] ELSE mp2
    IN  IF flags.maxTokens # "" /\ mt.err # "nil"
        THEN [err |-> mt.err, mp |-> mp]
        ELSE IF flags.temperature # "" /\ te.err # "nil"
        THEN [err |-> te.err, mp |-> mp1]
        ELSE IF flags.topP # "" /\ tp.err # "nil"
        THEN [err |-> tp.err, mp |-> mp2]
        ELSE [err |-> "nil", mp |-> mp3]

PopulateFromFlags(mp, flags) ==
    LET mt  == Atoi(flags.maxTokens)
        mp1 == IF flags.maxTokens # ""
               THEN [mp EXCEPT !.maxTokens = Ptr(mt.val)] ELSE mp
        te  == ParseFloat(flags.temperature)
        mp2 == IF flags.temperature # ""
               THEN [mp1 EXCEPT !.temperature = Ptr(te.val)] ELSE mp1
        tp  == ParseFloat(flags.topP)
        mp3 == IF flags.topP # ""
               THEN [mp2 EXCEPT !.topP = Ptr(tp.val)] ELSE mp2
    IN  IF flags.maxTokens # "" /\ mt.err # "nil"
        THEN [err |-> mt.err, mp |-> mp]
        ELSE IF flags.temperature # "" /\ te.err # "nil"
        THEN [err |-> te.err, mp |-> mp1]
        ELSE IF flags.topP # "" /\ tp.err # "nil"
        THEN [err |-> tp.err, mp |-> mp2]
        ELSE [err |-> "nil", mp |-> mp3]

\* SetParameterByName that starts from new parameters: the two parameters it
\* was not called for become unset.
SetParameterByName_ClearsOthers(mp, name, value) ==
    LET new == [maxTokens |-> Nil, temperature |-> Nil, topP |-> Nil] IN
    CASE name = "max-tokens" ->
            LET r == Atoi(value) IN
            IF r.err # "nil" THEN [err |-> r.err, mp |-> mp]
            ELSE [err |-> "nil", mp |-> [new EXCEPT !.maxTokens = Ptr(r.val)]]
      [] name = "temperature" ->
            LET r == ParseFloat(value) IN
            IF r.err # "nil" THEN [err |-> r.err, mp |-> mp]
            ELSE [err |-> "nil", mp |-> [new EXCEPT !.temperature = Ptr(r.val)]]
      [] name = "top-p" ->
            LET r == ParseFloat(value) IN
            IF r.err # "nil" THEN [err |-> r.err, mp |-> mp]
            ELSE [err |-> "nil", mp |-> [new EXCEPT !.topP = Ptr(r.val)]]
      [] OTHER ->
            [err |-> "unknown parameter '" \o name
                        \o "'. Supported parameters: max-tokens, temperature, top-p",
             mp |-> mp]

\* SetParameterByName that stores the parsed value before it looks at the
\* error.
SetParameterByName_StoresOnError(mp, name, value) ==
    CASE name = "max-tokens" ->
            LET r == Atoi(value) IN
            [err |-> r.err, mp |-> [mp EXCEPT !.maxTokens = Ptr(r.val)]]
      [] name = "temperature" ->
            LET r == ParseFloat(value) IN
            [err |-> r.err, mp |-> [mp EXCEPT !.temperature = Ptr(r.val)]]
      [] name = "top-p" ->
            LET r == ParseFloat(value) IN
            [err |-> r.err, mp |-> [mp EXCEPT !.topP = Ptr(r.val)]]
      [] OTHER ->
            [err |-> "unknown parameter '" \o name
                        \o "'. Supported parameters: max-tokens, temperature, top-p",
             mp |-> mp]

SetParameterByName(mp, name, value) ==
    CASE name = "max-tokens" ->
            LET r == Atoi(value) IN
            IF r.err # "nil" THEN [err |-> r.err, mp |-> mp]
            ELSE [err |-> "nil", mp |-> [mp EXCEPT !.maxTokens = Ptr(r.val)]]
      [] name = "temperature" ->
            LET r == ParseFloat(value) IN
            IF r.err # "nil" THEN [err |-> r.err, mp |-> mp]
            ELSE [err |-> "nil", mp |-> [mp EXCEPT !.temperature = Ptr(r.val)]]
      [] name = "top-p" ->
            LET r == ParseFloat(value) IN
            IF r.err # "nil" THEN [err |-> r.err, mp |-> mp]
            ELSE [err |-> "nil", mp |-> [mp EXCEPT !.topP = Ptr(r.val)]]
      [] OTHER ->
            [err |-> "unknown parameter '" \o name
                        \o "'. Supported parameters: max-tokens, temperature, top-p",
             mp |-> mp]

\* UpdateRequest that copies the parameters that are set and leaves the
\* other fields of the request alone.
UpdateRequest_SkipsUnset(mp, request) ==
    [request EXCEPT
        !.MaxTokens = IF mp.maxTokens # Nil THEN mp.maxTokens ELSE @,
        !.Temperature = IF mp.temperature # Nil THEN mp.temperature ELSE @,
        !.TopP = IF mp.topP # Nil THEN mp.topP ELSE @]

UpdateRequest(mp, request) ==
    [request EXCEPT !.MaxTokens = mp.maxTokens,
                    !.Temperature = mp.temperature,
                    !.TopP = mp.topP]

(* ----------------------------- Conversation ---------------------------- *)

ChatMessageRoleAssistant == "assistant"

ChatMessageRoleSystem == "system"

ChatMessageRoleUser == "user"

\* Conversation{systemPrompt: systemPrompt}: no stored turns.
NewConversation(systemPrompt) ==
    [messages |-> <<>>, systemPrompt |-> systemPrompt]

AddMessage(c, role, content) ==
    [c EXCEPT !.messages =
        Append(c.messages, [Content |-> Ptr(content), Role |-> role])]

\* GetMessages with the system message written after the turns.
GetMessages_SystemLast(c) ==
    IF c.systemPrompt # ""
    THEN Append(c.messages,
                [Content |-> Ptr(c.systemPrompt), Role |-> ChatMessageRoleSystem])
    ELSE c.messages

GetMessages(c) ==
    LET length     == Len(c.messages) + (IF c.systemPrompt # "" THEN 1 ELSE 0)
        startIndex == IF c.systemPrompt # "" THEN 1 ELSE 0
    IN  [i \in 1..length |->
            IF i <= startIndex
            THEN [Content |-> Ptr(c.systemPrompt), Role |-> ChatMessageRoleSystem]
            ELSE c.messages[i - startIndex]]

\* Reset that replaces the whole Conversation by its zero value.
Reset_DropsDirective(c) == [messages |-> <<>>, systemPrompt |-> ""]

Reset(c) == [c EXCEPT !.messages = <<>>]

(* --------------------------- model inputs ------------------------------ *)

\* Command lines after `gh models run`: the model name, then the words of
\* the prompt.
ArgsSet ==
    { <<"gpt-4o">>, <<"gpt-4o", "hi">>, <<"gpt-4o", "/bye">>,
      <<"gpt-4o", "/help">>, <<"gpt-4o", " ">>, <<"gpt-4o", "">> }

\* Standard input: a terminal or file (isPipe FALSE), or a named pipe with
\* the bytes io.ReadAll gets from it.
StdinSet ==
    { [isPipe |-> FALSE, data |-> ""],
      [isPipe |-> TRUE, data |-> ""],
      [isPipe |-> TRUE, data |-> "yo\n"] }

\* Values of the --system-prompt flag.
SystemPromptFlags == {"", "be brief"}

\* Values of the --max-tokens, --temperature and --top-p flags.
FlagSets ==
    { [maxTokens |-> "", temperature |-> "", topP |-> ""],
      [maxTokens |-> "9", temperature |-> "", topP |-> "0.5"],
      [maxTokens |-> "", temperature |-> "hot", topP |-> ""] }

\* Lines the user can type, with the terminating newline.
Inputs ==
    { "hi\n", " yo \n", "\n", "  \n",
      "/bye\n", "/exit\n", " /quit \n",
      "/parameters\n", "/reset\n", "/clear\n", "/help\n",
      "/set max-tokens 5\n", "/set temperature 0.7\n", "/set top-p .95\n",
      "/set max-tokens five\n", "/set speed 1\n", "/set max-tokens\n",
      "/system-prompt \"talk like a pirate\"\n", "/system-prompt terse\n",
      "/nope\n", "/set\n", "/byebye\n" }

\* What bufio's ReadString has read when it fails before a newline.
PartialInputs == {"", "hi", "/help"}

Content(text) == Ptr([Content |-> Ptr(text)])

\* Chunks a completion stream can deliver: each is the list of its choices.
Chunks ==
    { << [Delta |-> Content("Hel"), Message |-> Nil] >>,
      << [Delta |-> Content("lo"), Message |-> Nil] >>,
      << [Delta |-> Nil, Message |-> Content("Full")],
         [Delta |-> Content("d"), Message |-> Content("m")] >>,
      << [Delta |-> Ptr([Content |-> Nil]), Message |-> Content("fb")],
         [Delta |-> Nil, Message |-> Nil] >>,
      << >> }

\* Errors of Reader.Read other than io.EOF.
ReadErrors == {"parse", "connection reset"}

(* ------------------------------- state --------------------------------- *)

VARIABLES
    token,          \* what auth.TokenForHost returned
    models,         \* the sorted catalog (<<>> when ListModels gave none)
    nListModels,    \* calls of ListModels so far
    args,           \* RunE's args
    stdin,          \* os.Stdin: whether it is a pipe, and the piped bytes
    modelName,      \* the model of every request
    initialPrompt,  \* the one-shot prompt not yet consumed
    singleShot,
    conversation,   \* RunE's Conversation
    mp,             \* RunE's ModelParameters
    pc,             \* "AwaitingInput", "Streaming" or "Ended"
    err,            \* what RunE returned once pc = "Ended" ("nil": no error)
    prompt,         \* the loop's prompt variable
    stdinRead,      \* whether bufio has read from os.Stdin
    req,            \* the request of the latest exchange (Nil before it)
    nRequests,      \* calls of GetChatCompletionStream so far
    messageBuilder, \* the loop's strings.Builder, as its text
    pulled,         \* the chunks Reader.Read returned in this exchange
    out,            \* util.WriteToOut calls of the current loop iteration
    spinning,       \* exchanges whose spinner is running
    openReaders,    \* exchanges whose resp.Reader is not closed
    c,              \* ConvSpec: a Conversation driven through its methods
    view,           \* ConvSpec: the result of the latest GetMessages
    lastOp,         \* ConvSpec: the latest method called
    nOps,           \* ConvSpec: methods called so far
    ps,             \* ParamSpec: a ModelParameters driven through its methods
    rq,             \* ParamSpec: a request UpdateRequest is applied to
    last,           \* ParamSpec: the latest call, its arguments and result
    nCalls,         \* ParamSpec: calls made so far
    calleeBuilder,  \* ChoiceSpec: handleCompletionChoice's builder at return
    sink,           \* ChoiceSpec: the writes to handleCompletionChoice's out
    lastChoice,     \* ChoiceSpec: the choice of the latest call (Nil: none)
    nChoices,       \* ChoiceSpec: calls made so far
    call,           \* ClientSpec: the latest GetChatCompletionStream call
    openBodies,     \* ClientSpec: response bodies received and not closed
    nClientCalls,   \* ClientSpec: calls made so far
    handled         \* PromptSpec: the /system-prompt lines handled, each with
                    \* the systemPrompt of the handler's Conversation at return

startupVars == <<token, models, nListModels>>

sessionVars ==
    <<startupVars, args, stdin, modelName, initialPrompt, singleShot, conversation, mp, pc,
      err, prompt, stdinRead, req, nRequests, messageBuilder, pulled, out,
      spinning, openReaders>>

convVars == <<c, view, lastOp, nOps>>

paramVars == <<ps, rq, last, nCalls>>

choiceVars == <<calleeBuilder, sink, lastChoice, nChoices>>

\* The state of the specifications that drive one type or function alone.
clientVars == <<call, openBodies, nClientCalls>>

promptVars == <<handled>>

harnessVars == <<convVars, paramVars, choiceVars, clientVars, promptVars>>

vars == <<sessionVars, harnessVars>>

(* ------------------------------ startup -------------------------------- *)

\* initialPrompt as RunE computes it from args[1:] and the piped input.
InitialPromptOf(a, in) ==
    LET fromArgs == IF Len(a) > 1 THEN Join(Tail(a), " ") ELSE "" IN
    IF in.isPipe /\ Len(in.data) > 0
    THEN fromArgs \o "\n" \o in.data
    ELSE fromArgs

SingleShotOf(a, in) == Len(a) > 1 \/ (in.isPipe /\ Len(in.data) > 0)

\* The latest-call record of ParamSpec before any call.
NoCall == [op |-> "new", name |-> "", value |-> "", err |-> "nil", text |-> ""]

\* A request as RunE builds it before UpdateRequest: no parameter field set.
NewRequest(messages, model) ==
    [Messages |-> messages, Model |-> model,
     MaxTokens |-> Nil, Temperature |-> Nil, TopP |-> Nil]

(* ------------------------ the inference client ------------------------ *)

StatusOK == 200

StatusBadRequest == 400

StatusUnauthorized == 401

\* Responses of the inference endpoint: Status is the status line's text,
\* Body the bytes io.ReadAll yields from the body.
Responses ==
    { [StatusCode |-> st[1], Status |-> st[2], Body |-> b] :
        st \in { <<200, "200 OK">>, <<201, "201 Created">>,
                 <<400, "400 Bad Request">>, <<401, "401 Unauthorized">>,
                 <<404, "404 Not Found">>,
                 <<500, "500 Internal Server Error">> },
        b \in {"", "rate limited", "{}"} }

\* What c.client.Do returns: a response, or the error of the round trip.
RoundTrips ==
    { [resp |-> Ptr(r), err |-> "nil"] : r \in Responses }
        \cup { [resp |-> Nil, err |-> "Post: dial tcp: connection refused"] }

\* Tokens a Client is made with.
Tokens == {"", "ghp_token"}

\* handleHTTPError that reports the status and leaves out the body.
handleHTTPError_StatusOnly(resp) ==
    CASE resp.StatusCode = StatusUnauthorized -> "unauthorized"
      [] resp.StatusCode = StatusBadRequest -> "bad request"
      [] OTHER -> "unexpected response from the server: " \o resp.Status

\* The text of the error for a response that is not 200.
handleHTTPError(resp) ==
    LET sb == CASE resp.StatusCode = StatusUnauthorized -> "unauthorized"
                [] resp.StatusCode = StatusBadRequest -> "bad request"
                [] OTHER -> "unexpected response from the server: "
                                \o resp.Status
    IN  IF Len(resp.Body) > 0 THEN sb \o "\n" \o resp.Body \o "\n" ELSE sb

\* The request sent, and what the caller gets: the handle (Nil: none) over
\* the response body, the error, and whether the response body was closed
\* before the return.  json.Marshal and http.NewRequest do not fail on the
\* requests and the constant URL of this model.
GetChatCompletionStream(authToken, request, roundTrip) ==
    LET sent == [Authorization |-> "Bearer " \o authToken,
                 Stream |-> TRUE, options |-> request]
    IN  IF roundTrip.err # "nil"
        THEN [sent |-> sent, resp |-> Nil, err |-> roundTrip.err,
              bodyClosed |-> FALSE]
        ELSE IF Deref(roundTrip.resp).StatusCode # StatusOK
        THEN [sent |-> sent, resp |-> Nil,
              err |-> handleHTTPError(Deref(roundTrip.resp)),
              bodyClosed |-> TRUE]
        ELSE [sent |-> sent,
              resp |-> Ptr([Reader |-> Deref(roundTrip.resp).Body]),
              err |-> "nil", bodyClosed |-> FALSE]

\* Errors of GetChatCompletionStream met by RunE: one of each kind of
\* handleHTTPError and a failure of the HTTP round trip.
OpenErrors ==
    { GetChatCompletionStream("ghp_token", NewRequest(<<>>, "gpt-4o"), rt).err :
        rt \in { [resp |-> Ptr([StatusCode |-> 401, Status |-> "401 Unauthorized",
                                Body |-> "{}"]), err |-> "nil"],
                 [resp |-> Ptr([StatusCode |-> 400, Status |-> "400 Bad Request",
                                Body |-> ""]), err |-> "nil"],
                 [resp |-> Ptr([StatusCode |-> 500,
                                Status |-> "500 Internal Server Error",
                                Body |-> "rate limited"]), err |-> "nil"],
                 [resp |-> Nil, err |-> "Post: dial tcp: connection refused"] } }

\* The ModelParameters and request of ParamSpec while another specification
\* runs.
ParamIdle ==
    /\ ps = NewModelParameters
    /\ rq = NewRequest(<<>>, "")
    /\ last = NoCall
    /\ nCalls = 0

\* The handleCompletionChoice frame of ChoiceSpec while another
\* specification runs.
\* RunE has not asked for a token.
StartupIdle ==
    /\ token = ""
    /\ models = <<>>
    /\ nListModels = 0

PromptIdle == handled = <<>>

ClientIdle ==
    /\ call = Nil
    /\ openBodies = 0
    /\ nClientCalls = 0

ChoiceIdle ==
    /\ calleeBuilder = ""
    /\ sink = <<>>
    /\ lastChoice = Nil
    /\ nChoices = 0

\* The Conversation of ConvSpec while another specification runs.
ConvIdle ==
    /\ c = NewConversation("")
    /\ view = <<>>
    /\ lastOp = "new"
    /\ nOps = 0

\* The state when RunE enters its loop, or has returned the error of
\* PopulateFromFlags.
\* util.WriteToOut: one write to the terminal.
WriteToOut(w, text) == Append(w, text)

\* Model summaries of the catalog.
Gpt4o ==
    [Name |-> "gpt-4o", FriendlyName |-> "OpenAI GPT-4o",
     Task |-> "chat-completion"]

Gpt4oMini ==
    [Name |-> "gpt-4o-mini", FriendlyName |-> "OpenAI GPT-4o mini",
     Task |-> "chat-completion"]

Embedding ==
    [Name |-> "text-embedding-3-small",
     FriendlyName |-> "OpenAI Text Embedding 3 (small)",
     Task |-> "embeddings"]

\* What client.ListModels returns.
Listings ==
    { [err |-> "nil", models |-> <<Gpt4oMini, Embedding, Gpt4o>>],
      [err |-> "nil", models |-> <<Embedding>>],
      [err |-> "Post: dial tcp: connection refused", models |-> <<>>] }

\* The orders of a list.
Perms(list) ==
    { p \in [1..Len(list) -> 1..Len(list)] :
        \A i, j \in 1..Len(list) : i # j => p[i] # p[j] }

\* ux.SortModels reorders the list in place; the orders it can leave.
SortModels(list) ==
    { [i \in 1..Len(list) |-> list[p[i]]] : p \in Perms(list) }

\* ux.IsChatModel
IsChatModel(model) == model.Task = "chat-completion"

\* ModelSummary.HasName: the identifier or the display name.
HasName(model, name) == name \in {model.Name, model.FriendlyName}

noMatchErrorMessage ==
    "The specified model name is not found. Run 'gh models list' to see available models or 'gh models run' to select interactively."

\* validateModelName that returns the name as it was given.
validateModelName_KeepsGivenName(name, list) ==
    IF name = "" \/ ~\E i \in 1..Len(list) : HasName(list[i], name)
    THEN [name |-> "", err |-> noMatchErrorMessage]
    ELSE [name |-> name, err |-> "nil"]

\* The Name of the first model of the list that has the name.
validateModelName(name, list) ==
    IF name = ""
    THEN [name |-> "", err |-> noMatchErrorMessage]
    ELSE LET matches == { i \in 1..Len(list) : HasName(list[i], name) } IN
         IF matches = {}
         THEN [name |-> "", err |-> noMatchErrorMessage]
         ELSE [name |-> list[CHOOSE i \in matches :
                                \A j \in matches : i <= j].Name,
               err |-> "nil"]

\* The options of the survey.Select: display names of the chat models.
SelectOptions(list) ==
    { list[i].FriendlyName : i \in { j \in 1..Len(list) : IsChatModel(list[j]) } }

\* What survey.AskOne can give for a list: an error (interrupt, or nothing to
\* select from) or one of the options.
AskOutcomes(list) ==
    { [err |-> "interrupt", answer |-> ""] }
        \cup { [err |-> "nil", answer |-> o] : o \in SelectOptions(list) }

\* ask is the outcome of survey.AskOne, looked at when there are no args.
getModelNameFromArgs(a, list, ask) ==
    IF Len(a) = 0
    THEN IF ask.err # "nil"
         THEN [name |-> "", err |-> ask.err]
         ELSE validateModelName(ask.answer, list)
    ELSE validateModelName(a[1], list)

\* The catalog the sessions of ArgsSet run with.
Catalog == <<Gpt4o, Gpt4oMini, Embedding>>

NoFlags == [maxTokens |-> "", temperature |-> "", topP |-> ""]

Terminal == [isPipe |-> FALSE, data |-> ""]

\* A start of RunE: the token, what ListModels returns and how SortModels
\* leaves it, what AskOne gives, the command line, standard input, flags.
Startup(tok, listing, sorted, ask, a, in, sys, flags) ==
    [token |-> tok, listing |-> listing, sorted |-> sorted, ask |-> ask,
     args |-> a, stdin |-> in, systemPrompt |-> sys, flags |-> flags]

NoAsk == [err |-> "interrupt", answer |-> ""]

CatalogListing == [err |-> "nil", models |-> <<Gpt4oMini, Embedding, Gpt4o>>]

\* The --system-prompt flag with the parameter flags: none given, all good
\* ones given, a bad one given.
FlagConfigs ==
    { cfg \in SystemPromptFlags \X FlagSets :
        (cfg[1] = "") = (cfg[2].maxTokens = "") }

Startups ==
    \* a token, the catalog, a model named by its identifier
    { Startup("ghp_token", CatalogListing, Catalog, NoAsk, a, in, cfg[1], cfg[2]) :
        a \in ArgsSet, in \in StdinSet, cfg \in FlagConfigs }
    \* no token
    \cup { Startup("", CatalogListing, Catalog, NoAsk, a, Terminal, "", NoFlags) :
             a \in {<<>>, <<"gpt-4o">>, <<"gpt-4o", "hi">>} }
    \* every outcome of ListModels and SortModels, the selection interrupted
    \cup UNION { { Startup("ghp_token", l, sorted, NoAsk, <<>>, Terminal, "",
                            NoFlags) : sorted \in SortModels(l.models) } :
                    l \in Listings }
    \* the model chosen from the list
    \cup { Startup("ghp_token", CatalogListing, Catalog, ask, <<>>, Terminal,
                   "", NoFlags) : ask \in AskOutcomes(Catalog) }
    \* names that are not identifiers of chat models
    \cup { Startup("ghp_token", CatalogListing, Catalog, NoAsk, a, Terminal, "",
                   NoFlags) :
             a \in { <<"">>, <<"gpt-5">>, <<"gpt-5", "hi">>,
                     <<"OpenAI GPT-4o mini", "hi">>,
                     <<"text-embedding-3-small", "hi">> } }

Init ==
    \E su \in Startups :
        LET named == getModelNameFromArgs(su.args, su.sorted, su.ask)
            pf == PopulateFromFlags(NewModelParameters, su.flags)
            \* how far RunE gets before its loop
            stage == IF su.token = "" THEN "token"
                     ELSE IF su.listing.err # "nil" THEN "ListModels"
                     ELSE IF named.err # "nil" THEN "getModelNameFromArgs"
                     ELSE IF pf.err # "nil" THEN "PopulateFromFlags"
                     ELSE "loop"
            hasModel == stage \in {"PopulateFromFlags", "loop"}
        IN
        /\ token = su.token
        /\ nListModels = IF su.token = "" THEN 0 ELSE 1
        /\ models = IF stage \in {"token", "ListModels"} THEN <<>>
                    ELSE su.sorted
        /\ args = su.args
        /\ stdin = su.stdin
        /\ modelName = IF hasModel THEN named.name ELSE ""
        /\ initialPrompt = IF hasModel THEN InitialPromptOf(su.args, su.stdin)
                           ELSE ""
        /\ singleShot = (hasModel /\ SingleShotOf(su.args, su.stdin))
        /\ conversation = IF hasModel THEN NewConversation(su.systemPrompt)
                          ELSE NewConversation("")
        /\ mp = IF hasModel THEN pf.mp ELSE NewModelParameters
        /\ pc = IF stage = "loop" THEN "AwaitingInput" ELSE "Ended"
        /\ err = CASE stage = "ListModels" -> su.listing.err
                   [] stage = "getModelNameFromArgs" -> named.err
                   [] stage = "PopulateFromFlags" -> pf.err
                   [] OTHER -> "nil"
        /\ prompt = ""
        /\ stdinRead = FALSE
        /\ req = Nil
        /\ nRequests = 0
        /\ messageBuilder = ""
        /\ pulled = <<>>
        /\ out = IF stage = "token"
                 THEN WriteToOut(<<>>, "No GitHub token found. Please run 'gh auth login' to authenticate.\n")
                 ELSE <<>>
        /\ spinning = {}
        /\ openReaders = {}
        /\ ConvIdle
        /\ ParamIdle
        /\ ChoiceIdle
        /\ ClientIdle
        /\ PromptIdle

(* --------------------------- command handlers -------------------------- *)
\* Each handler is given as the state of its frame when it returns: the
\* writes to out (an io.Writer, shared with the caller) and its parameters,
\* which Go passed by value.

handleParametersPrompt(w, conv, params) ==
    LET w1 == WriteToOut(w, "Current parameters:\n")
        w2 == WriteToOut(w1, "  max-tokens: "
                    \o FormatParameter(params, "max-tokens") \o "\n")
        w3 == WriteToOut(w2, "  temperature: "
                    \o FormatParameter(params, "temperature") \o "\n")
        w4 == WriteToOut(w3, "  top-p: "
                    \o FormatParameter(params, "top-p") \o "\n")
        w5 == WriteToOut(w4, "\n")
        w6 == WriteToOut(w5, "System Prompt:\n")
    IN  [out |-> IF conv.systemPrompt # ""
                 THEN WriteToOut(w6, "  " \o conv.systemPrompt \o "\n")
                 ELSE WriteToOut(w6, "  <not set>\n")]

handleResetPrompt(w, conv) ==
    [conversation |-> Reset(conv),
     out |-> WriteToOut(w, "Reset chat history\n")]

handleSetPrompt(w, line, params) ==
    LET parts == Split(line, " ") IN
    IF Len(parts) = 3
    THEN LET name  == parts[2]
             value == parts[3]
             r     == SetParameterByName(params, name, value)
         IN  IF r.err # "nil"
             THEN [mp |-> r.mp, out |-> WriteToOut(w, r.err \o "\n")]
             ELSE [mp |-> r.mp,
                   out |-> WriteToOut(w, "Set " \o name \o " to " \o value \o "\n")]
    ELSE [mp |-> params,
          out |-> WriteToOut(w, "Invalid /set syntax. Usage: /set <name> <value>\n")]

handleSystemPrompt(w, line, conv) ==
    [conversation |->
        [conv EXCEPT !.systemPrompt =
            Trim(TrimPrefix(line, "/system-prompt "), {"\""})],
     out |-> WriteToOut(w, "Updated system prompt\n")]

handleHelpPrompt(w) ==
    LET w1 == WriteToOut(w, "Commands:\n")
        w2 == WriteToOut(w1, "  /bye, /exit, /quit - Exit the chat\n")
        w3 == WriteToOut(w2, "  /parameters - Show current model parameters\n")
        w4 == WriteToOut(w3, "  /reset, /clear - Reset chat context\n")
        w5 == WriteToOut(w4, "  /set <name> <value> - Set a model parameter\n")
        w6 == WriteToOut(w5, "  /system-prompt <prompt> - Set the system prompt\n")
    IN  [out |-> WriteToOut(w6, "  /help - Show this help message\n")]

handleUnrecognizedPrompt(w, line) ==
    [out |-> WriteToOut(w, "Unknown command '" \o line
                            \o "'. See /help for supported commands.\n")]

\* handleCompletionChoice that only fills the builder and leaves the writing
\* to the end of the stream.
handleCompletionChoice_Buffered(choice, builder, w) ==
    IF choice.Delta # Nil /\ Deref(choice.Delta).Content # Nil
    THEN [err |-> "nil",
          messageBuilder |-> builder \o Deref(Deref(choice.Delta).Content),
          out |-> w]
    ELSE IF choice.Message # Nil /\ Deref(choice.Message).Content # Nil
    THEN [err |-> "nil",
          messageBuilder |-> builder \o Deref(Deref(choice.Message).Content),
          out |-> w]
    ELSE [err |-> "nil", messageBuilder |-> builder, out |-> w]

\* messageBuilder is a strings.Builder passed by value: the writes go to the
\* callee's copy, which the result carries.  WriteString never fails.
handleCompletionChoice(choice, builder, w) ==
    IF choice.Delta # Nil /\ Deref(choice.Delta).Content # Nil
    THEN LET content == Deref(Deref(choice.Delta).Content) IN
         [err |-> "nil", messageBuilder |-> builder \o content,
          out |-> WriteToOut(w, content)]
    ELSE IF choice.Message # Nil /\ Deref(choice.Message).Content # Nil
    THEN LET content == Deref(Deref(choice.Message).Content) IN
         [err |-> "nil", messageBuilder |-> builder \o content,
          out |-> WriteToOut(w, content)]
    ELSE [err |-> "nil", messageBuilder |-> builder, out |-> w]

\* for _, choice := range completion.Choices: every call gets a fresh copy
\* of the loop's builder, and only the writes to out outlive the call.
RECURSIVE HandleChoices(_, _, _)
HandleChoices(choices, builder, w) ==
    IF Len(choices) = 0 THEN [err |-> "nil", out |-> w]
    ELSE LET r == handleCompletionChoice(Head(choices), builder, w) IN
         IF r.err # "nil" THEN [err |-> r.err, out |-> r.out]
         ELSE HandleChoices(Tail(choices), builder, r.out)

(* ---------------------------- the session loop ------------------------- *)

ExitCommands == {"/bye", "/exit", "/quit"}

\* The raw prompts one pass of the loop can obtain: the unconsumed initial
\* prompt, else a line of standard input (a pipe was drained by io.ReadAll).
Obtained ==
    IF initialPrompt # "" THEN {initialPrompt}
    ELSE IF stdin.isPipe THEN {}
    ELSE Inputs

\* Top of the loop: take the prompt, clear initialPrompt, trim.  What
\* follows in the pass dispatches on the trimmed prompt.
Consume(raw) ==
    /\ pc = "AwaitingInput"
    /\ raw \in Obtained
    /\ initialPrompt' = ""
    /\ stdinRead' = (stdinRead \/ initialPrompt = "")
    /\ prompt' = TrimSpace(raw)
    /\ pulled' = <<>>
    /\ messageBuilder' = ""

\* return e: the deferred sp.Stop() and resp.Reader.Close() of every pass run.
Return(e) ==
    /\ pc' = "Ended"
    /\ err' = e
    /\ spinning' = {}
    /\ openReaders' = {}

\* continue
Continue ==
    /\ pc' = "AwaitingInput"
    /\ UNCHANGED <<err, spinning, openReaders>>

\* reader.ReadString fails (end of input): return err.
ReadError ==
    /\ pc = "AwaitingInput"
    /\ initialPrompt = ""
    /\ \E partial \in PartialInputs :
        /\ stdin.isPipe => partial = ""
        /\ prompt' = partial
    /\ stdinRead' = TRUE
    /\ Return("EOF")
    /\ UNCHANGED <<startupVars, args, stdin, modelName, initialPrompt, singleShot,
                   conversation, mp, req, nRequests, messageBuilder, pulled,
                   out, harnessVars>>

\* An empty prompt sent as a user turn.
EmptyInput_Sends ==
    \E raw \in Obtained :
        /\ Consume(raw)
        /\ prompt' = ""
        /\ nRequests < MaxExchanges
        /\ conversation' = AddMessage(conversation, "user", prompt')
        /\ req' = Ptr([Messages |-> GetMessages(conversation'),
                       Model |-> modelName, MaxTokens |-> mp.maxTokens,
                       Temperature |-> mp.temperature, TopP |-> mp.topP])
        /\ nRequests' = nRequests + 1
        /\ out' = <<>>
        /\ pc' = "Streaming"
        /\ err' = err
        /\ spinning' = spinning \cup {nRequests'}
        /\ openReaders' = openReaders \cup {nRequests'}
        /\ UNCHANGED <<startupVars, args, stdin, modelName, singleShot, mp,
                       harnessVars>>

EmptyInput ==
    \E raw \in Obtained :
        /\ Consume(raw)
        /\ prompt' = ""
        /\ out' = <<>>
        /\ Continue
        /\ UNCHANGED <<startupVars, args, stdin, modelName, singleShot, conversation, mp,
                       req, nRequests, harnessVars>>

ExitCmd ==
    \E raw \in Obtained :
        /\ Consume(raw)
        /\ prompt' \in ExitCommands
        /\ out' = <<>>
        /\ Return("nil")
        /\ UNCHANGED <<startupVars, args, stdin, modelName, singleShot, conversation, mp,
                       req, nRequests, harnessVars>>

ParametersCmd ==
    \E raw \in Obtained :
        /\ Consume(raw)
        /\ prompt' = "/parameters"
        /\ out' = handleParametersPrompt(<<>>, conversation, mp).out
        /\ Continue
        /\ UNCHANGED <<startupVars, args, stdin, modelName, singleShot, conversation, mp,
                       req, nRequests, harnessVars>>

\* handleResetPrompt(out, conversation): the Conversation argument is a copy,
\* so RunE's conversation is not the one Reset clears.
ResetCmd ==
    \E raw \in Obtained :
        /\ Consume(raw)
        /\ prompt' \in {"/reset", "/clear"}
        /\ out' = handleResetPrompt(<<>>, conversation).out
        /\ Continue
        /\ UNCHANGED <<startupVars, args, stdin, modelName, singleShot, conversation, mp,
                       req, nRequests, harnessVars>>

\* handleSetPrompt(out, prompt, mp): the ModelParameters argument is a copy,
\* so the pointers SetParameterByName stores are not stored in RunE's mp.
SetCmd ==
    \E raw \in Obtained :
        /\ Consume(raw)
        /\ prompt' \notin ExitCommands \cup {"/parameters", "/reset", "/clear"}
        /\ HasPrefix(prompt', "/set ")
        /\ out' = handleSetPrompt(<<>>, prompt', mp).out
        /\ Continue
        /\ UNCHANGED <<startupVars, args, stdin, modelName, singleShot, conversation, mp,
                       req, nRequests, harnessVars>>

\* handleSystemPrompt(out, prompt, conversation): the Conversation argument
\* is a copy, so RunE's conversation keeps its systemPrompt.
SystemPromptCmd ==
    \E raw \in Obtained :
        /\ Consume(raw)
        /\ HasPrefix(prompt', "/system-prompt ")
        /\ out' = handleSystemPrompt(<<>>, prompt', conversation).out
        /\ Continue
        /\ UNCHANGED <<startupVars, args, stdin, modelName, singleShot, conversation, mp,
                       req, nRequests, harnessVars>>

HelpCmd ==
    \E raw \in Obtained :
        /\ Consume(raw)
        /\ prompt' = "/help"
        /\ out' = handleHelpPrompt(<<>>).out
        /\ Continue
        /\ UNCHANGED <<startupVars, args, stdin, modelName, singleShot, conversation, mp,
                       req, nRequests, harnessVars>>

\* An unrecognized command that is returned as an error.
UnrecognizedCmd_Aborts ==
    \E raw \in Obtained :
        /\ Consume(raw)
        /\ HasPrefix(prompt', "/")
        /\ prompt' \notin
                ExitCommands \cup {"/parameters", "/reset", "/clear", "/help"}
        /\ ~HasPrefix(prompt', "/set ")
        /\ ~HasPrefix(prompt', "/system-prompt ")
        /\ out' = handleUnrecognizedPrompt(<<>>, prompt').out
        /\ Return("unknown command")
        /\ UNCHANGED <<startupVars, args, stdin, modelName, singleShot, conversation, mp,
                       req, nRequests, harnessVars>>

UnrecognizedCmd ==
    \E raw \in Obtained :
        /\ Consume(raw)
        /\ HasPrefix(prompt', "/")
        /\ prompt' \notin
                ExitCommands \cup {"/parameters", "/reset", "/clear", "/help"}
        /\ ~HasPrefix(prompt', "/set ")
        /\ ~HasPrefix(prompt', "/system-prompt ")
        /\ out' = handleUnrecognizedPrompt(<<>>, prompt').out
        /\ Continue
        /\ UNCHANGED <<startupVars, args, stdin, modelName, singleShot, conversation, mp,
                       req, nRequests, harnessVars>>

\* The request RunE builds from the conversation and the parameters.
BuildRequest(conv, params, model) ==
    UpdateRequest(params, NewRequest(GetMessages(conv), model))

\* A prompt that is not a command: append the user turn, build the request,
\* start the spinner and open the stream.
SendPrompt(raw) ==
    /\ Consume(raw)
    /\ prompt' # ""
    /\ ~HasPrefix(prompt', "/")
    /\ nRequests < MaxExchanges
    /\ conversation' = AddMessage(conversation, ChatMessageRoleUser, prompt')
    /\ req' = Ptr(BuildRequest(conversation', mp, modelName))
    /\ nRequests' = nRequests + 1
    /\ out' = <<>>
    /\ UNCHANGED <<startupVars, args, stdin, modelName, singleShot, mp, harnessVars>>

\* GetChatCompletionStream returned a response.
OpenStream ==
    \E raw \in Obtained :
        /\ SendPrompt(raw)
        /\ pc' = "Streaming"
        /\ err' = err
        /\ spinning' = spinning \cup {nRequests'}
        /\ openReaders' = openReaders \cup {nRequests'}

\* An error of GetChatCompletionStream after which the loop goes on.
OpenStreamFails_Continues ==
    \E raw \in Obtained, e \in OpenErrors :
        /\ SendPrompt(raw)
        /\ Continue

\* GetChatCompletionStream returned an error: return err.
OpenStreamFails ==
    \E raw \in Obtained, e \in OpenErrors :
        /\ SendPrompt(raw)
        /\ Return(e)

\* resp.Reader.Read returned a completion: stop the spinner, handle each
\* choice.
ReadChunk ==
    \E chunk \in Chunks :
        LET r == HandleChoices(chunk, messageBuilder, out) IN
        /\ pc = "Streaming"
        /\ Len(pulled) < MaxChunks
        /\ pulled' = Append(pulled, chunk)
        /\ spinning' = spinning \ {nRequests}
        /\ out' = r.out
        /\ IF r.err # "nil"
           THEN Return(r.err)
           ELSE pc' = "Streaming" /\ UNCHANGED <<err, openReaders>>
        /\ UNCHANGED <<startupVars, args, stdin, modelName, initialPrompt, singleShot,
                       conversation, mp, prompt, stdinRead, req, nRequests,
                       messageBuilder, harnessVars>>

\* End of stream without the singleShot break.
ReadEOF_NoBreak ==
    /\ pc = "Streaming"
    /\ out' = WriteToOut(out, "\n")
    /\ messageBuilder' = messageBuilder \o "\n"
    /\ conversation' =
            AddMessage(conversation, ChatMessageRoleAssistant, messageBuilder')
    /\ Continue
    /\ UNCHANGED <<startupVars, args, stdin, modelName, initialPrompt, singleShot, mp,
                   prompt, stdinRead, req, nRequests, pulled, harnessVars>>

\* resp.Reader.Read returned io.EOF: write the newline, append the
\* assistant turn, and break when singleShot.
ReadEOF ==
    /\ pc = "Streaming"
    /\ out' = WriteToOut(out, "\n")
    /\ messageBuilder' = messageBuilder \o "\n"
    /\ conversation' =
            AddMessage(conversation, ChatMessageRoleAssistant, messageBuilder')
    /\ IF singleShot THEN Return("nil") ELSE Continue
    /\ UNCHANGED <<startupVars, args, stdin, modelName, initialPrompt, singleShot, mp,
                   prompt, stdinRead, req, nRequests, pulled, harnessVars>>

\* A read error taken for the end of the stream.
ReadFails_AsEOF ==
    \E e \in ReadErrors :
        /\ pc = "Streaming"
        /\ out' = WriteToOut(out, "\n")
        /\ messageBuilder' = messageBuilder \o "\n"
        /\ conversation' =
                AddMessage(conversation, ChatMessageRoleAssistant, messageBuilder')
        /\ IF singleShot THEN Return("nil") ELSE Continue
        /\ UNCHANGED <<startupVars, args, stdin, modelName, initialPrompt, singleShot, mp,
                       prompt, stdinRead, req, nRequests, pulled, harnessVars>>

\* resp.Reader.Read returned another error: return err.
ReadFails ==
    \E e \in ReadErrors :
        /\ pc = "Streaming"
        /\ Return(e)
        /\ UNCHANGED <<startupVars, args, stdin, modelName, initialPrompt, singleShot,
                       conversation, mp, prompt, stdinRead, req, nRequests,
                       messageBuilder, pulled, out, harnessVars>>

Next ==
    \/ ReadError
    \/ EmptyInput
    \/ ExitCmd
    \/ ParametersCmd
    \/ ResetCmd
    \/ SetCmd
    \/ SystemPromptCmd
    \/ HelpCmd
    \/ UnrecognizedCmd
    \/ OpenStream
    \/ OpenStreamFails
    \/ ReadChunk
    \/ ReadEOF
    \/ ReadFails

Spec == Init /\ [][Next]_vars

(* ------------------ the Conversation through its methods --------------- *)

ConvRoles == {ChatMessageRoleUser, ChatMessageRoleAssistant, ChatMessageRoleSystem}

ConvTexts == {"hi", "\n"}

ConvSystemPrompts == {"", "be brief", "terse"}

\* A Conversation as RunE constructs it; the session does not run.
ConvInit ==
    /\ \E sys \in ConvSystemPrompts : c = NewConversation(sys)
    /\ view = <<>>
    /\ lastOp = "new"
    /\ nOps = 0
    /\ StartupIdle
    /\ args = <<"gpt-4o">>
    /\ stdin = [isPipe |-> FALSE, data |-> ""]
    /\ modelName = "gpt-4o"
    /\ initialPrompt = ""
    /\ singleShot = FALSE
    /\ conversation = NewConversation("")
    /\ mp = NewModelParameters
    /\ pc = "Ended"
    /\ err = "nil"
    /\ prompt = ""
    /\ stdinRead = FALSE
    /\ req = Nil
    /\ nRequests = 0
    /\ messageBuilder = ""
    /\ pulled = <<>>
    /\ out = <<>>
    /\ spinning = {}
    /\ openReaders = {}
    /\ ParamIdle
    /\ ChoiceIdle
    /\ ClientIdle
    /\ PromptIdle

CAddMessage ==
    \E role \in ConvRoles, text \in ConvTexts :
        /\ nOps < MaxConvOps
        /\ c' = AddMessage(c, role, text)
        /\ lastOp' = "AddMessage"
        /\ nOps' = nOps + 1
        /\ UNCHANGED <<view, sessionVars, paramVars, choiceVars, clientVars, promptVars>>

CGetMessages ==
    /\ nOps < MaxConvOps
    /\ view' = GetMessages(c)
    /\ lastOp' = "GetMessages"
    /\ nOps' = nOps + 1
    /\ UNCHANGED <<c, sessionVars, paramVars, choiceVars, clientVars, promptVars>>

CReset ==
    /\ nOps < MaxConvOps
    /\ c' = Reset(c)
    /\ lastOp' = "Reset"
    /\ nOps' = nOps + 1
    /\ UNCHANGED <<view, sessionVars, paramVars, choiceVars, clientVars, promptVars>>

\* The assignment to the systemPrompt field that handleSystemPrompt makes.
CSetSystemPrompt ==
    \E text \in ConvSystemPrompts :
        /\ nOps < MaxConvOps
        /\ c' = [c EXCEPT !.systemPrompt = text]
        /\ lastOp' = "SetSystemPrompt"
        /\ nOps' = nOps + 1
        /\ UNCHANGED <<view, sessionVars, paramVars, choiceVars, clientVars, promptVars>>

ConvNext == CAddMessage \/ CGetMessages \/ CReset \/ CSetSystemPrompt

ConvSpec == ConvInit /\ [][ConvNext]_vars

(* ---------------- the ModelParameters through its methods -------------- *)

RecognizedNames == {"max-tokens", "temperature", "top-p"}

\* Names given to SetParameterByName and FormatParameter.
ParamNames == RecognizedNames \cup {"speed"}

\* Texts given as parameter values.
ParamValues == {"5", "-3", "0.7", ".95", "five", ""}

\* The flags with one of them given.
FlagsWith(name, value) ==
    [maxTokens   |-> IF name = "max-tokens" THEN value ELSE "",
     temperature |-> IF name = "temperature" THEN value ELSE "",
     topP        |-> IF name = "top-p" THEN value ELSE ""]

\* Flag combinations given to PopulateFromFlags.
ParamFlagSets ==
    { FlagsWith(name, value) : name \in RecognizedNames, value \in ParamValues }
        \cup { [maxTokens |-> "5", temperature |-> "five", topP |-> ".95"] }

\* Requests UpdateRequest is applied to: a new one, and one whose parameter
\* fields hold values already.
ParamRequests ==
    { NewRequest(<<>>, "gpt-4o"),
      [NewRequest(<<>>, "o1") EXCEPT !.MaxTokens = Ptr(100),
                                         !.Temperature = Ptr(1000000),
                                         !.TopP = Ptr(250000)] }

\* RunE is not running.
SessionIdle ==
    /\ StartupIdle
    /\ args = <<"gpt-4o">>
    /\ stdin = [isPipe |-> FALSE, data |-> ""]
    /\ modelName = "gpt-4o"
    /\ initialPrompt = ""
    /\ singleShot = FALSE
    /\ conversation = NewConversation("")
    /\ mp = NewModelParameters
    /\ pc = "Ended"
    /\ err = "nil"
    /\ prompt = ""
    /\ stdinRead = FALSE
    /\ req = Nil
    /\ nRequests = 0
    /\ messageBuilder = ""
    /\ pulled = <<>>
    /\ out = <<>>
    /\ spinning = {}
    /\ openReaders = {}

\* A ModelParameters as RunE constructs it, and a request.
ParamInit ==
    /\ ps = NewModelParameters
    /\ rq \in ParamRequests
    /\ last = NoCall
    /\ nCalls = 0
    /\ SessionIdle
    /\ PromptIdle
    /\ ConvIdle
    /\ ChoiceIdle
    /\ ClientIdle

PSetParameterByName ==
    \E name \in ParamNames, value \in ParamValues :
        LET r == SetParameterByName(ps, name, value) IN
        /\ nCalls < MaxParamCalls
        /\ ps' = r.mp
        /\ last' = [op |-> "SetParameterByName", name |-> name,
                    value |-> value, err |-> r.err, text |-> ""]
        /\ nCalls' = nCalls + 1
        /\ UNCHANGED <<rq, sessionVars, convVars, choiceVars, clientVars, promptVars>>

PFormatParameter ==
    \E name \in ParamNames :
        /\ nCalls < MaxParamCalls
        /\ last' = [op |-> "FormatParameter", name |-> name, value |-> "",
                    err |-> "nil", text |-> FormatParameter(ps, name)]
        /\ nCalls' = nCalls + 1
        /\ UNCHANGED <<ps, rq, sessionVars, convVars, choiceVars, clientVars, promptVars>>

PPopulateFromFlags ==
    \E flags \in ParamFlagSets :
        LET r == PopulateFromFlags(ps, flags) IN
        /\ nCalls < MaxParamCalls
        /\ ps' = r.mp
        /\ last' = [op |-> "PopulateFromFlags", name |-> "", value |-> "",
                    err |-> r.err, text |-> ""]
        /\ nCalls' = nCalls + 1
        /\ UNCHANGED <<rq, sessionVars, convVars, choiceVars, clientVars, promptVars>>

PUpdateRequest ==
    /\ nCalls < MaxParamCalls
    /\ rq' = UpdateRequest(ps, rq)
    /\ last' = [op |-> "UpdateRequest", name |-> "", value |-> "",
                err |-> "nil", text |-> ""]
    /\ nCalls' = nCalls + 1
    /\ UNCHANGED <<ps, sessionVars, convVars, choiceVars, clientVars, promptVars>>

ParamNext ==
    \/ PSetParameterByName
    \/ PFormatParameter
    \/ PPopulateFromFlags
    \/ PUpdateRequest

ParamSpec == ParamInit /\ [][ParamNext]_vars

(* ------------- GetChatCompletionStream through its outcomes ------------ *)

ClientInit ==
    /\ call = Nil
    /\ openBodies = 0
    /\ nClientCalls = 0
    /\ SessionIdle
    /\ PromptIdle
    /\ ConvIdle
    /\ ParamIdle
    /\ ChoiceIdle

\* One call: the round trip is whatever the network does.
CGetChatCompletionStream ==
    \E authToken \in Tokens, request \in ParamRequests, rt \in RoundTrips :
        LET r == GetChatCompletionStream(authToken, request, rt) IN
        /\ nClientCalls < MaxClientCalls
        /\ call' = Ptr([roundTrip |-> rt, result |-> r])
        /\ openBodies' = IF rt.resp # Nil /\ ~r.bodyClosed
                         THEN openBodies + 1 ELSE openBodies
        /\ nClientCalls' = nClientCalls + 1
        /\ UNCHANGED <<sessionVars, convVars, paramVars, choiceVars, promptVars>>

ClientNext == CGetChatCompletionStream

ClientSpec == ClientInit /\ [][ClientNext]_vars

(* --------------- handleCompletionChoice through its calls -------------- *)

\* The choices of the chunks.
Choices == UNION { { chunk[i] : i \in 1..Len(chunk) } : chunk \in Chunks }

\* The read loop's builder is messageBuilder, new and empty; nothing written.
ChoiceInit ==
    /\ calleeBuilder = ""
    /\ sink = <<>>
    /\ lastChoice = Nil
    /\ nChoices = 0
    /\ SessionIdle
    /\ PromptIdle
    /\ ConvIdle
    /\ ParamIdle
    /\ ClientIdle

\* handleCompletionChoice(choice, messageBuilder, out, terminal) as the read
\* loop calls it: the builder is passed by value, so messageBuilder is after
\* the call what it was before; calleeBuilder is the callee's copy at return.
CHandleCompletionChoice ==
    \E choice \in Choices :
        LET r == handleCompletionChoice(choice, messageBuilder, sink) IN
        /\ nChoices < MaxChoiceCalls
        /\ calleeBuilder' = r.messageBuilder
        /\ sink' = r.out
        /\ lastChoice' = Ptr(choice)
        /\ nChoices' = nChoices + 1
        /\ UNCHANGED <<sessionVars, convVars, paramVars, clientVars, promptVars>>

ChoiceNext == CHandleCompletionChoice

ChoiceSpec == ChoiceInit /\ [][ChoiceNext]_vars

(* ----------------- handleSystemPrompt through its calls ----------------- *)

\* Texts typed after "/system-prompt ", as the trimmed line holds them (not
\* empty, no space at the end).
SystemPromptTexts ==
    { "terse", "\"talk like a pirate\"", "\"\"hi\"\"", "\"say \"hi\"\"",
      "\"say \"x\" now\"", "say \"x\" now", "\"a", "a\"", "\"", "\"\"",
      "\" a \"" }

\* The Conversations the handler is given.
PromptConversations ==
    { NewConversation(""), NewConversation("be brief"),
      AddMessage(NewConversation("be brief"), ChatMessageRoleUser, "hi") }

PromptInit ==
    /\ handled = <<>>
    /\ SessionIdle
    /\ ConvIdle
    /\ ParamIdle
    /\ ChoiceIdle
    /\ ClientIdle

\* RunE's dispatch (the trimmed prompt has the prefix "/system-prompt ") and
\* one call of handleSystemPrompt; what is kept is the handler's frame.
PHandleSystemPrompt ==
    \E text \in SystemPromptTexts, conv \in PromptConversations :
        LET line == "/system-prompt " \o text
            r == handleSystemPrompt(<<>>, line, conv)
        IN  /\ Len(handled) < MaxPromptCalls
            /\ HasPrefix(line, "/system-prompt ")
            /\ handled' = Append(handled,
                    [prompt |-> line, given |-> conv,
                     conversation |-> r.conversation, out |-> r.out])
            /\ UNCHANGED <<sessionVars, convVars, paramVars, choiceVars,
                           clientVars>>

PromptNext == PHandleSystemPrompt

PromptSpec == PromptInit /\ [][PromptNext]_vars

(* ------------------------------ properties ----------------------------- *)

Last(seq) == seq[Len(seq)]

SystemMessage(text) == [Content |-> Ptr(text), Role |-> ChatMessageRoleSystem]

\* The content fragment a choice carries: that of its delta when populated,
\* else that of its message when populated, else none.
FragmentOf(choice) ==
    IF choice.Delta # Nil /\ choice.Delta[1].Content # Nil
    THEN <<choice.Delta[1].Content[1]>>
    ELSE IF choice.Message # Nil /\ choice.Message[1].Content # Nil
    THEN <<choice.Message[1].Content[1]>>
    ELSE <<>>

RECURSIVE FragmentsOfChoices(_)
FragmentsOfChoices(choices) ==
    IF Len(choices) = 0 THEN <<>>
    ELSE FragmentOf(Head(choices)) \o FragmentsOfChoices(Tail(choices))

\* The fragments of a sequence of chunks, in arrival order.
RECURSIVE FragmentsOf(_)
FragmentsOf(chunks) ==
    IF Len(chunks) = 0 THEN <<>>
    ELSE FragmentsOfChoices(Head(chunks)) \o FragmentsOf(Tail(chunks))

RECURSIVE Concat(_)
Concat(texts) == IF Len(texts) = 0 THEN "" ELSE Head(texts) \o Concat(Tail(texts))

\* C1: when the loop has handled /reset or /clear and awaits input again,
\* the session's Conversation has no stored turns.
C1_ResetClearsSessionHistory ==
    (pc = "AwaitingInput" /\ prompt \in {"/reset", "/clear"})
        => conversation.messages = <<>>

\* C2: when the loop has handled a well-formed /set <name> <value> with a
\* recognized name and a parsable value, the session's ModelParameters hold
\* that value.
C2_SetStoresInSessionParameters ==
    LET parts == Split(prompt, " ") IN
    (/\ pc = "AwaitingInput"
     /\ HasPrefix(prompt, "/set ")
     /\ Len(parts) = 3
     /\ SetParameterByName(NewModelParameters, parts[2], parts[3]).err = "nil")
        => mp = SetParameterByName(mp, parts[2], parts[3]).mp

\* C3: when the loop has handled /system-prompt <text>, the session's
\* Conversation has that text as its systemPrompt.
C3_SystemPromptReplacesDirective ==
    (pc = "AwaitingInput" /\ HasPrefix(prompt, "/system-prompt "))
        => conversation.systemPrompt
              = Trim(TrimPrefix(prompt, "/system-prompt "), {"\""})

\* C4: at end of stream the assistant turn appended to the Conversation is
\* the concatenation, in arrival order, of the fragments of all choices of
\* all chunks of the exchange.
C4_AssistantTurnIsConcatenation ==
    [][ReadEOF =>
          /\ Last(conversation'.messages).Role = ChatMessageRoleAssistant
          /\ Last(conversation'.messages).Content = Ptr(Concat(FragmentsOf(pulled)))
      ]_vars

\* C5: while an exchange streams, the output sink has received exactly the
\* fragments of the chunks pulled so far, one write per fragment, in arrival
\* order.
C5_SinkReceivesFragmentsAsPulled ==
    pc = "Streaming" => out = FragmentsOf(pulled)

C5_Witness ==
    /\ pc = "Streaming"
    /\ Len(pulled) = 2
    /\ out = <<"Hel", "lo">>

\* C6 as claimed: a session started with a non-empty initial prompt has
\* performed exactly one exchange when it has ended.
C6_OneShotExactlyOneExchange ==
    (/\ pc = "Ended"
     /\ modelName # ""
     /\ InitialPromptOf(args, stdin) # ""
     /\ initialPrompt = "")
        => nRequests = 1

\* C6 amended: in one-shot mode the initial prompt is consumed once, by the
\* first pass of the loop; at most one request is issued and the session
\* never awaits input after it; and when the trimmed initial prompt is
\* non-empty and not a command, the one request is made from it without
\* standard input having been read.  (modelName = "": RunE returned before
\* it looked at the prompt.)
C6_OneShotAtMostOneExchange ==
    LET supplied == IF modelName # "" THEN InitialPromptOf(args, stdin)
                    ELSE ""
    IN
    /\ initialPrompt \in {"", supplied}
    /\ (stdinRead \/ nRequests > 0 \/ prompt # "") => initialPrompt = ""
    /\ singleShot =>
          /\ nRequests <= 1
          /\ nRequests = 1 => pc \in {"Streaming", "Ended"}
    /\ (/\ initialPrompt = ""
        /\ TrimSpace(supplied) # ""
        /\ ~HasPrefix(TrimSpace(supplied), "/"))
          => /\ nRequests = 1
             /\ ~stdinRead
             /\ prompt = TrimSpace(supplied)
             /\ Deref(Last(Deref(req).Messages).Content) = TrimSpace(supplied)

C6_Witness ==
    /\ pc = "Ended"
    /\ err = "nil"
    /\ InitialPromptOf(args, stdin) = "hi"
    /\ nRequests = 1
    /\ ~stdinRead
    /\ Len(conversation.messages) = 2

\* C7: a line that begins with '/' ends the session, without error, when it
\* is /bye, /exit or /quit, and otherwise leaves the session awaiting input
\* with no error.
C7_OnlyExitCommandsEnd ==
    [][(/\ pc = "AwaitingInput"
        /\ HasPrefix(prompt', "/")
        /\ \E raw \in Obtained : Consume(raw)
        /\ ~ReadError)
          => /\ err' = "nil"
             /\ pc' = IF prompt' \in ExitCommands
                      THEN "Ended" ELSE "AwaitingInput"
      ]_vars

C7_Witness ==
    /\ pc = "AwaitingInput"
    /\ prompt = "/set max-tokens five"
    /\ Len(out) = 1
    /\ nRequests = 1

\* C8: an error of opening the stream or of reading it ends the session
\* with that error and appends no turn after the user's; once ended, the
\* session reads no input and issues no request.
C8_StreamErrorEndsSession ==
    [][/\ (nRequests' > nRequests /\ OpenStreamFails) =>
            /\ pc' = "Ended"
            /\ err' \in OpenErrors
            /\ Last(conversation'.messages).Role = ChatMessageRoleUser
       /\ ReadFails =>
            /\ pc' = "Ended"
            /\ err' \in ReadErrors
            /\ conversation' = conversation
       /\ pc = "Ended" =>
            UNCHANGED <<pc, err, prompt, stdinRead, nRequests, conversation>>
      ]_vars

C8_Witness ==
    /\ pc = "Ended"
    /\ err = "parse"
    /\ Len(pulled) = 1
    /\ Len(conversation.messages) = 3
    /\ Last(conversation.messages).Role = ChatMessageRoleUser

\* C9: GetMessages is the system message with the current systemPrompt
\* followed by the stored turns in order when systemPrompt is non-empty, and
\* the stored turns otherwise; the list a call returns is that of the
\* conversation as it is at the call.
C9_GetMessagesIsCurrentView ==
    LET m == GetMessages(c) IN
    /\ IF c.systemPrompt # ""
       THEN /\ Len(m) = Len(c.messages) + 1
            /\ m[1] = SystemMessage(c.systemPrompt)
            /\ \A i \in 1..Len(c.messages) : m[i + 1] = c.messages[i]
       ELSE /\ Len(m) = Len(c.messages)
            /\ \A i \in 1..Len(c.messages) : m[i] = c.messages[i]
    /\ lastOp = "GetMessages" =>
            /\ Len(view) = Len(c.messages) + (IF c.systemPrompt # "" THEN 1 ELSE 0)
            /\ c.systemPrompt # "" => view[1] = SystemMessage(c.systemPrompt)
            /\ \A i \in 1..Len(c.messages) :
                    view[Len(view) - Len(c.messages) + i] = c.messages[i]

C9_Witness ==
    /\ lastOp = "GetMessages"
    /\ c.systemPrompt = "terse"
    /\ Len(c.messages) = 2
    /\ view = <<SystemMessage("terse")>> \o c.messages

\* C10: Reset leaves no stored turns and the systemPrompt as it was, so
\* GetMessages is then the system message alone, or empty without a
\* directive; AddMessage after Reset gives a history of length one.
C10_ResetKeepsDirective ==
    [][/\ CReset =>
            /\ c'.messages = <<>>
            /\ c'.systemPrompt = c.systemPrompt
            /\ GetMessages(c') = IF c.systemPrompt # ""
                                 THEN <<SystemMessage(c.systemPrompt)>>
                                 ELSE <<>>
       /\ (lastOp = "Reset" /\ CAddMessage) =>
            /\ Len(c'.messages) = 1
            /\ Len(GetMessages(c')) = (IF c.systemPrompt # "" THEN 2 ELSE 1)
      ]_vars

C10_Witness ==
    /\ lastOp = "AddMessage"
    /\ c.systemPrompt = "be brief"
    /\ view = <<SystemMessage("be brief"),
                [Content |-> Ptr("hi"), Role |-> ChatMessageRoleUser]>>
    /\ c.messages = <<[Content |-> Ptr("\n"), Role |-> ChatMessageRoleAssistant]>>

\* Texts strconv.Atoi rejects, among ParamValues.
NotIntegers == {"0.7", ".95", "five", ""}

\* Texts strconv.ParseFloat rejects, among ParamValues.
NotFloats == {"five", ""}

\* C11: SetParameterByName with an unknown name fails with an error that
\* names the parameter, with a recognized name and unparsable text it fails,
\* and a failing call leaves maxTokens, temperature and topP as they were.
C11_FailedSetChangesNothing ==
    [][(nCalls' = nCalls + 1 /\ last'.op = "SetParameterByName") =>
          /\ last'.name \notin RecognizedNames =>
                HasPrefix(last'.err, "unknown parameter '" \o last'.name \o "'")
          /\ (last'.name = "max-tokens" /\ last'.value \in NotIntegers) =>
                last'.err # "nil"
          /\ (last'.name \in {"temperature", "top-p"} /\ last'.value \in NotFloats) =>
                last'.err # "nil"
          /\ last'.err # "nil" => ps' = ps
      ]_vars

C11_Witness ==
    /\ last.op = "SetParameterByName"
    /\ last.name = "top-p"
    /\ last.value = "five"
    /\ last.err # "nil"
    /\ ps = [maxTokens |-> Ptr(5), temperature |-> Nil, topP |-> Ptr(950000)]

\* An UpdateRequest step of ParamSpec.
UpdateRequestStep == nCalls' = nCalls + 1 /\ last'.op = "UpdateRequest"

\* C12 as stated: UpdateRequest copies onto the request the parameters that
\* are set, and for every parameter that is unset the request's field keeps
\* the value it had before the call.
C12_UnsetKeepsRequestField ==
    [][UpdateRequestStep =>
          /\ rq'.MaxTokens = IF ps.maxTokens # Nil THEN ps.maxTokens
                             ELSE rq.MaxTokens
          /\ rq'.Temperature = IF ps.temperature # Nil THEN ps.temperature
                               ELSE rq.Temperature
          /\ rq'.TopP = IF ps.topP # Nil THEN ps.topP ELSE rq.TopP
      ]_vars

\* C12 amended: UpdateRequest assigns the three parameter fields of the
\* request from the parameters, set or not: a set parameter's value is
\* copied, an unset parameter makes the request's field absent whatever it
\* held before; the messages and the model are not touched.
C12_UpdateRequestAssignsAllThree ==
    [][UpdateRequestStep =>
          /\ rq'.MaxTokens = ps.maxTokens
          /\ rq'.Temperature = ps.temperature
          /\ rq'.TopP = ps.topP
          /\ rq'.Messages = rq.Messages
          /\ rq'.Model = rq.Model
      ]_vars

\* The request that held all three fields, after UpdateRequest with only
\* max-tokens set.
C12_Witness ==
    /\ last.op = "UpdateRequest"
    /\ ps = [maxTokens |-> Ptr(5), temperature |-> Nil, topP |-> Nil]
    /\ rq = [NewRequest(<<>>, "o1") EXCEPT !.MaxTokens = Ptr(5)]

\* The field of a recognized name.
Field(params, name) ==
    CASE name = "max-tokens" -> params.maxTokens
      [] name = "temperature" -> params.temperature
      [] name = "top-p" -> params.topP

\* What a parameter set from a text of ParamValues is displayed as: the
\* digits of the integer, the decimal with six fraction digits.
Displayed(name, value) ==
    IF name = "max-tokens"
    THEN CASE value = "5" -> "5"
           [] value = "-3" -> "-3"
    ELSE CASE value = "5" -> "5.000000"
           [] value = "-3" -> "-3.000000"
           [] value = "0.7" -> "0.700000"
           [] value = ".95" -> "0.950000"

\* C13: FormatParameter(name) is "<not set>" exactly when the named
\* parameter is unset, and after a successful SetParameterByName(name, text)
\* it is the representation of the value parsed from text.
C13_FormatShowsValueOrSentinel ==
    [][nCalls' = nCalls + 1 =>
          /\ \A name \in RecognizedNames :
                FormatParameter(ps', name) = "<not set>"
                    <=> Field(ps', name) = Nil
          /\ \A name \in ParamNames \ RecognizedNames :
                FormatParameter(ps', name) = "<not set>"
          /\ (last'.op = "FormatParameter" /\ last'.name \in RecognizedNames) =>
                (last'.text = "<not set>" <=> Field(ps, last'.name) = Nil)
          /\ (last'.op = "SetParameterByName" /\ last'.err = "nil") =>
                FormatParameter(ps', last'.name)
                    = Displayed(last'.name, last'.value)
      ]_vars

\* temperature set from ".95" and displayed, max-tokens never set.
C13_Witness ==
    /\ last.op = "FormatParameter"
    /\ last.name = "temperature"
    /\ last.text = "0.950000"
    /\ ps.maxTokens = Nil
    /\ FormatParameter(ps, "max-tokens") = "<not set>"

\* PopulateFromFlags with one flag given and SetParameterByName, applied to
\* the same parameters, accept or reject alike and, accepting, leave the
\* same parameters.
Agree(params, name, value) ==
    LET f == PopulateFromFlags(params, FlagsWith(name, value))
        g == SetParameterByName(params, name, value)
    IN  /\ f.err = "nil" <=> g.err = "nil"
        /\ f.err = "nil" => f.mp = g.mp

\* C15 as stated: for each recognized name and every text value,
\* PopulateFromFlags with that flag value and SetParameterByName(name, value)
\* agree on acceptance and, when accepted, on the resulting parameters.
C15_FlagsAndSetterAgree ==
    \A name \in RecognizedNames, value \in ParamValues :
        Agree(ps, name, value)

\* C15 amended: they agree for every text that is not empty; an empty flag
\* text is taken as the flag not given (accepted, nothing changes) while
\* SetParameterByName rejects the empty text.
C15_FlagsAndSetterAgreeOnNonEmpty ==
    \A name \in RecognizedNames :
        /\ \A value \in ParamValues \ {""} : Agree(ps, name, value)
        /\ PopulateFromFlags(ps, FlagsWith(name, "")) = [err |-> "nil", mp |-> ps]
        /\ SetParameterByName(ps, name, "").err # "nil"
        /\ SetParameterByName(ps, name, "").mp = ps

\* --top-p .95 has left what SetParameterByName("top-p", ".95") leaves.
C15_Witness ==
    /\ nCalls = 1
    /\ last.op = "PopulateFromFlags"
    /\ last.err = "nil"
    /\ ps = SetParameterByName(NewModelParameters, "top-p", ".95").mp
    /\ ps.topP = Ptr(950000)

\* s ends with suffix.
HasSuffix(s, suffix) ==
    /\ Len(s) >= Len(suffix)
    /\ SubSeq(s, Len(s) - Len(suffix) + 1, Len(s)) = suffix

\* C14: GetChatCompletionStream returns a handle or an error, never both
\* and never neither; for every status other than 200 it returns no handle,
\* has closed the response body, and its error is "unauthorized" for 401,
\* "bad request" for 400 and "unexpected response" with the status for any
\* other, followed by the text of the response body; only 200 gives a handle.
C14_HandleOrErrorByStatus ==
    call # Nil =>
        LET rt == Deref(call).roundTrip
            r  == Deref(call).result
        IN  /\ r.resp = Nil <=> r.err # "nil"
            /\ r.resp # Nil <=>
                  (rt.resp # Nil /\ Deref(rt.resp).StatusCode = 200)
            /\ (rt.resp # Nil /\ Deref(rt.resp).StatusCode # 200) =>
                  LET resp == Deref(rt.resp)
                      kind == CASE resp.StatusCode = 401 -> "unauthorized"
                                [] resp.StatusCode = 400 -> "bad request"
                                [] OTHER ->
                                     "unexpected response from the server: "
                                         \o resp.Status
                  IN  /\ r.resp = Nil
                      /\ r.bodyClosed
                      /\ HasPrefix(r.err, kind)
                      /\ resp.Body # "" =>
                            HasSuffix(r.err, "\n" \o resp.Body \o "\n")
                      /\ resp.Body = "" => r.err = kind
            /\ openBodies <= nClientCalls

\* A 404 with a body was answered with the error text and no handle.
C14_Witness ==
    /\ call # Nil
    /\ Deref(call).roundTrip.resp # Nil
    /\ Deref(Deref(call).roundTrip.resp).StatusCode = 404
    /\ Deref(Deref(call).roundTrip.resp).Body = "rate limited"
    /\ Deref(call).result.resp = Nil
    /\ Deref(call).result.bodyClosed
    /\ openBodies = 0
    /\ nClientCalls = 2

\* The identifiers of the catalog RunE holds.
CatalogNames == { models[i].Name : i \in 1..Len(models) }

\* The name given on the command line has no model in the catalog.
Unmatched ==
    /\ Len(args) > 0
    /\ \/ args[1] = ""
       \/ ~\E i \in 1..Len(models) : HasName(models[i], args[1])

\* C16: a chat-completion request is issued only with a non-empty token and
\* a model name matched against the catalog; with an empty token RunE
\* reports it and ends with no network call; with an empty or unmatched
\* model name it ends with an error before the session starts; the Model of
\* every request is the canonical name of a catalog model.
C16_RequestsNeedTokenAndCatalogModel ==
    /\ (nRequests > 0 \/ req # Nil) =>
          /\ token # ""
          /\ nListModels = 1
          /\ Deref(req).Model = modelName
          /\ Deref(req).Model \in CatalogNames
          /\ \E i \in 1..Len(models) :
                /\ models[i].Name = Deref(req).Model
                /\ IF Len(args) > 0 THEN HasName(models[i], args[1])
                   ELSE IsChatModel(models[i])
    /\ token = "" =>
          /\ pc = "Ended"
          /\ err = "nil"
          /\ out = <<"No GitHub token found. Please run 'gh auth login' to authenticate.\n">>
          /\ nListModels = 0
          /\ nRequests = 0
          /\ req = Nil
    /\ (token # "" /\ models # <<>> /\ Unmatched) =>
          /\ pc = "Ended"
          /\ err = noMatchErrorMessage
          /\ nRequests = 0
          /\ req = Nil

\* A request made for the model that was named by its display name.
C16_Witness ==
    /\ args = <<"OpenAI GPT-4o mini", "hi">>
    /\ nRequests = 1
    /\ req # Nil
    /\ Deref(req).Model = "gpt-4o-mini"
    /\ token = "ghp_token"

\* C17: a pass of the loop whose input is empty after trimming, or begins
\* with '/', appends no turn to the Conversation and issues no request; a
\* pass appends a turn or issues a request only for a non-empty input that
\* does not begin with '/', and then it does both.
C17_OnlyPromptsAppendAndRequest ==
    [][pc = "AwaitingInput" =>
          /\ (prompt' = "" \/ HasPrefix(prompt', "/")) =>
                /\ Len(conversation'.messages) <= Len(conversation.messages)
                /\ nRequests' = nRequests
                /\ req' = req
                /\ pc' # "Streaming"
          /\ (conversation'.messages # conversation.messages
                \/ nRequests' # nRequests \/ req' # req) =>
                /\ prompt' # ""
                /\ ~HasPrefix(prompt', "/")
                /\ conversation'.messages =
                      Append(conversation.messages,
                             [Content |-> Ptr(prompt'), Role |-> "user"])
                /\ nRequests' = nRequests + 1
      ]_vars

\* A blank line was entered after one exchange: still one request and the
\* two turns of that exchange.
C17_Witness ==
    /\ pc = "AwaitingInput"
    /\ prompt = ""
    /\ stdinRead
    /\ nRequests = 1
    /\ Len(conversation.messages) = 2

\* C18: the spinner started before a request is stopped on the first chunk
\* or when the call fails, so no spinner is running while the session
\* awaits input, also after a stream that ended without a chunk.
C18_NoSpinnerWhileAwaitingInput ==
    pc = "AwaitingInput" => spinning = {}

\* C19: the stream handle of an exchange is closed when the exchange ends,
\* before the session awaits input again, so at most one handle is open at
\* any moment, and none is open once the session has ended.
C19_HandleClosedWithExchange ==
    /\ Cardinality(openReaders) <= 1
    /\ pc = "AwaitingInput" => openReaders = {}
    /\ pc = "Ended" => openReaders = {}

\* C20: each call of handleCompletionChoice resolves the content of its choice
\* once (the delta's when the delta has content, else the message's when it
\* has content, else none), and that fragment is what is added to the
\* accumulating buffer and what is written to the sink.
C20_FragmentToBufferAndSink ==
    [][nChoices' = nChoices + 1 =>
          LET fragment == FragmentOf(Deref(lastChoice')) IN
          /\ sink' = sink \o fragment
          /\ messageBuilder' = messageBuilder \o Concat(fragment)
      ]_vars

\* One layer of surrounding quotes removed: one leading double quote when
\* there is one, then one trailing double quote when there is one.
StripOneLayer(text) ==
    LET a == IF HasPrefix(text, "\"") THEN SubSeq(text, 2, Len(text))
             ELSE text
    IN  IF HasSuffix(a, "\"") THEN SubSeq(a, 1, Len(a) - 1) ELSE a

\* C21: /system-prompt strips a single layer of surrounding quotes from its
\* text: one leading and one trailing double quote are removed when present,
\* and further quote characters inside that layer stay in the directive.
C21_StripsOneLayerOfQuotes ==
    \A i \in 1..Len(handled) :
        handled[i].conversation.systemPrompt
            = StripOneLayer(TrimPrefix(handled[i].prompt, "/system-prompt "))

\* C22: a successful SetParameterByName changes only the parameter it names
\* and leaves the other two as they were; a parameter that is set never
\* becomes unset, and its value changes only by a successful set of its name.
C22_SetTouchesOnlyNamedParameter ==
    [][(nCalls' = nCalls + 1 /\ last'.op = "SetParameterByName") =>
          \A name \in RecognizedNames :
             /\ Field(ps, name) # Nil => Field(ps', name) # Nil
             /\ Field(ps', name) # Field(ps, name) =>
                   (last'.err = "nil" /\ last'.name = name)
             /\ (last'.err = "nil" /\ last'.name = name) =>
                   Field(ps', name) # Nil
      ]_vars

\* max-tokens and top-p were set, then temperature: all three are set, the
\* first two with the values they were given.
C22_Witness ==
    /\ nCalls = 3
    /\ last.op = "SetParameterByName"
    /\ last.name = "temperature"
    /\ last.err = "nil"
    /\ ps = [maxTokens |-> Ptr(5), temperature |-> Ptr(700000),
             topP |-> Ptr(950000)]

\* C23: the stored turns hold no system message and alternate user,
\* assistant, user, ... from a user turn; while the session awaits input
\* their number is even; and the messages of a request end with the user
\* turn that holds the current trimmed input.
C23_TurnsAlternateFromUser ==
    LET turns == conversation.messages IN
    /\ \A i \in 1..Len(turns) :
          turns[i].Role = IF i % 2 = 1 THEN ChatMessageRoleUser
                          ELSE ChatMessageRoleAssistant
    /\ pc = "AwaitingInput" => Len(turns) % 2 = 0
    /\ req # Nil =>
          /\ Len(Deref(req).Messages) > 0
          /\ Last(Deref(req).Messages).Role = ChatMessageRoleUser
    \* an exchange is under way, or the session ended within it
    /\ Len(turns) % 2 = 1 =>
          /\ pc \in {"Streaming", "Ended"}
          /\ req # Nil
          /\ Deref(req).Messages = GetMessages(conversation)
          /\ Last(Deref(req).Messages)
                = [Content |-> Ptr(prompt), Role |-> ChatMessageRoleUser]
          /\ prompt # ""
          /\ prompt = TrimSpace(prompt)

\* The second request of a session with a directive: it starts with the
\* system message, which is not among the three stored turns, and ends with
\* the user turn of the line " yo ".
C23_Witness ==
    /\ pc = "Streaming"
    /\ nRequests = 2
    /\ Len(conversation.messages) = 3
    /\ prompt = "yo"
    /\ Deref(req).Messages[1].Role = ChatMessageRoleSystem
    /\ Len(Deref(req).Messages) = 4

=============================================================================
